---- MODULE Spec2Model ----
(***************************************************************************)
(* Model of wgpu-tools' Context (src/src/context.rs): context creation,    *)
(* command scheduling and the texture factories, with the u32 arithmetic   *)
(* of the texture length check kept at its 32-bit width.                   *)
(***************************************************************************)
EXTENDS Integers, Sequences, FiniteSets, TLC

(* ---------------- bounds of the model ---------------- *)
MaxLen == 8          \* longest raw data slice handed to texture_with_data
MaxDim == 2          \* largest "small" width / height
MaxTextures == 1     \* textures created before the model stops creating
MaxSubmits == 2      \* schedule calls before the model stops scheduling
MaxCommands == 1     \* commands one operations closure records
MaxAttempts == 2     \* Context creation attempts by the host

(* ---------------- u32 values as little-endian base-256 limbs ---------- *)
\* TLC integers are 32-bit signed, so a u32 (and the mathematical product
\* of u32s) is a sequence of 8-bit limbs, least significant first.
LimbBase == 256
U32Limbs == 4

RECURSIVE Pow(_, _)
Pow(b, e) == IF e = 0 THEN 1 ELSE b * Pow(b, e - 1)

\* the u32 holding the natural n (n < 2^31)
U32(n) == [i \in 1..U32Limbs |-> (n \div Pow(LimbBase, i - 1)) % LimbBase]

Limb(a, i) == IF i \in 1..Len(a) THEN a[i] ELSE 0

RECURSIVE SumTerms(_, _, _, _)
\* sum of a[i] * b[k + 1 - i] for i in lo..Len(a)
SumTerms(a, b, k, lo) ==
    IF lo > Len(a) THEN 0
    ELSE Limb(a, lo) * Limb(b, k + 1 - lo) + SumTerms(a, b, k, lo + 1)

RECURSIVE Propagate(_, _, _, _, _)
Propagate(a, b, k, n, carry) ==
    IF k > n THEN << >>
    ELSE LET t == SumTerms(a, b, k, 1) + carry
         IN  << t % LimbBase >> \o Propagate(a, b, k + 1, n, t \div LimbBase)

\* the mathematical product, Len(a) + Len(b) limbs wide
MulLimbs(a, b) == Propagate(a, b, 1, Len(a) + Len(b), 0)

IsZero(a) == \A i \in 1..Len(a) : a[i] = 0

RECURSIVE LessFrom(_, _, _)
LessFrom(a, b, i) ==
    IF i = 0 THEN FALSE
    ELSE IF Limb(a, i) # Limb(b, i) THEN Limb(a, i) < Limb(b, i)
    ELSE LessFrom(a, b, i - 1)

\* a < b as naturals, whatever the two widths
LimbsLess(a, b) == LessFrom(a, b, IF Len(a) > Len(b) THEN Len(a) ELSE Len(b))

LimbsEqual(a, b) == ~LimbsLess(a, b) /\ ~LimbsLess(b, a)

\* u32 * u32: the low 32 bits and whether the product left the u32 range
Overflows(a, b) == ~IsZero(SubSeq(MulLimbs(a, b), U32Limbs + 1, 2 * U32Limbs))
WrappingMul(a, b) == SubSeq(MulLimbs(a, b), 1, U32Limbs)

(* ---------------- input domains ---------------- *)
\* widths whose u32 products leave the u32 range: 4 * 2^30 = 2^32 and
\* (4 * 2^15) * 2^15 = 2^32
BigWidths == {32768, 1073741824}
Widths == (0..MaxDim) \cup BigWidths
Heights == (0..MaxDim) \cup {65536}
DataLens == 0..MaxLen
Formats == {"Rgba8Unorm", "Bgra8UnormSrgb"}
ImageDims == 0..MaxDim
\* f32 colour components in tenths, and NaN
F32(t) == [nan |-> FALSE, tenths |-> t]
NaN == [nan |-> TRUE, tenths |-> 0]
ColorComps == {NaN, F32(-10), F32(5), F32(10), F32(20)}
Colors == {<< rgb, rgb, rgb, alpha >> : rgb \in ColorComps, alpha \in ColorComps}
Instances == {"instance_a", "instance_b"}
Adapters == {"adapter_1", "adapter_2"}
Devices == {"device_1"}
DeviceErrors == {"request_device_error_1", "request_device_error_2"}
Entries == {"new", "default_with_surface", "default"}

VARIABLES
    overflow_checks, \* build profile: TRUE panics on integer overflow, FALSE wraps
    pc,              \* position of the running call: idle, await_adapter, await_device, in_operations, panicked
    op,              \* the wrapper operation running or last run
    log,             \* library calls made by that operation, in order
    result,          \* what that operation returned
    args,            \* the arguments of that operation
    ctx,             \* the Context held by the host, or NoContext
    attempts,        \* Context creations started
    adapter_reply,   \* what request_adapter yielded in the running creation
    device_reply,    \* what request_device yielded in the running creation
    textures, writes, views, samplers,   \* device resources and pending queue writes
    encoders,        \* command encoders created
    encoder,         \* commands recorded in the open encoder
    submitted        \* command buffers submitted to the queue, oldest first

vars == << overflow_checks, pc, op, log, result, args, ctx, attempts,
           adapter_reply, device_reply, textures, writes, views, samplers,
           encoders, encoder, submitted >>

NoContext == [tag |-> "none"]
NoReply == [tag |-> "pending"]
NoResult == [tag |-> "none"]
Call(name) == [call |-> name]

(* ---------------- error.rs ---------------- *)
RequestingAdapterFailed == [tag |-> "Err", error |-> "RequestingAdapterFailed"]
RequestingDeviceFailed(e) == [tag |-> "Err", error |-> "RequestingDeviceFailed", source |-> e]
ImageError == [tag |-> "Err", error |-> "ImageError"]
TextureCreationFailed == [tag |-> "Err", error |-> "TextureCreationFailed"]
Panic == [tag |-> "Panic"]

(* ---------------- Context::texture_with_data ---------------- *)
OkTexture(width, height, format) ==
    [tag |-> "Ok", width |-> width, height |-> height, format |-> format]

\* one u32 multiplication: with overflow checks the product panics when it
\* leaves the u32 range, without them it keeps the low 32 bits
U32Mul(a, b, checks) ==
    [panics |-> checks /\ Overflows(a, b), value |-> WrappingMul(a, b)]

\* let size = wgpu::Extent3d { width: *width, height: *height, .. };
Extent3d(width, height) == [width |-> width, height |-> height]

\* let bytes_per_row = 4 * size.width;
BytesPerRow(size, checks) == U32Mul(U32(4), U32(size.width), checks)

\* let bytes_per_image = bytes_per_row * size.width;
BytesPerImage(bytes_per_row, size, checks) == U32Mul(bytes_per_row, U32(size.width), checks)

\* variant: the comparison written <= instead of <
LengthCheckFails_Inclusive(data_len, bytes_per_row, bytes_per_image) ==
    IsZero(bytes_per_row) \/ ~LimbsLess(bytes_per_image, U32(data_len))

\* bytes_per_row == 0 || data.len() < bytes_per_image as usize
LengthCheckFails(data_len, bytes_per_row, bytes_per_image) ==
    IsZero(bytes_per_row) \/ LimbsLess(U32(data_len), bytes_per_image)

\* the library calls after the length check has passed
CreateAndUpload(data_len, width, height, format, bytes_per_row) ==
    << [call |-> "create_texture", width |-> width, height |-> height, format |-> format],
       [call |-> "write_texture", data_len |-> data_len, bytes_per_row |-> bytes_per_row,
        rows_per_image |-> height, width |-> width, height |-> height],
       Call("create_view"),
       Call("create_sampler") >>

\* variant: the texture is created before the length check
TextureWithData_LateCheck(data_len, width, height, format, checks) ==
    LET size == Extent3d(width, height)
        bpr  == BytesPerRow(size, checks)
        bpi  == BytesPerImage(bpr.value, size, checks)
    IN  IF bpr.panics \/ bpi.panics
        THEN [result |-> Panic, log |-> << >>]
        ELSE IF LengthCheckFails(data_len, bpr.value, bpi.value)
        THEN [result |-> TextureCreationFailed,
              log |-> SubSeq(CreateAndUpload(data_len, width, height, format, bpr.value), 1, 1)]
        ELSE [result |-> OkTexture(width, height, format),
              log |-> CreateAndUpload(data_len, width, height, format, bpr.value)]

\* the outcome of one call: the returned value and the library calls made
TextureWithData(data_len, width, height, format, checks) ==
    LET size == Extent3d(width, height)
        bpr  == BytesPerRow(size, checks)
        bpi  == BytesPerImage(bpr.value, size, checks)
    IN  IF bpr.panics \/ bpi.panics
        THEN [result |-> Panic, log |-> << >>]
        ELSE IF LengthCheckFails(data_len, bpr.value, bpi.value)
        THEN [result |-> TextureCreationFailed, log |-> << >>]
        ELSE [result |-> OkTexture(width, height, format),
              log |-> CreateAndUpload(data_len, width, height, format, bpr.value)]

(* ---------------- Context::texture_from_image ---------------- *)
\* image.to_rgba8(): 4 bytes for each of the width * height pixels
ToRgba8Len(width, height) == 4 * width * height

TextureFromImage(width, height, format, checks) ==
    TextureWithData(ToRgba8Len(width, height), width, height, format, checks)

(* ---------------- Context::texture_from_image_data ---------------- *)
\* image::load_from_memory(data)?: the encoded bytes either decode to an
\* image or yield an ImageError, which `?` returns at once
TextureFromImageData(file, format, checks) ==
    IF ~file.decodes
    THEN [result |-> ImageError, log |-> << >>]
    ELSE TextureFromImage(file.width, file.height, format, checks)

(* ---------------- Context::texture_from_color ---------------- *)
\* (c * 255_f32) as u8: truncates, saturates at 0 and 255, NaN becomes 0
ColorByte(c) ==
    IF c.nan THEN 0
    ELSE IF c.tenths < 0 THEN 0
    ELSE IF (c.tenths * 255) \div 10 > 255 THEN 255
    ELSE (c.tenths * 255) \div 10

ColorData(color) == [i \in 1..4 |-> ColorByte(color[i])]

TextureFromColor(color, format, checks) ==
    TextureWithData(Len(ColorData(color)), 1, 1, format, checks)

(* ---------------- Context::depth_texture ---------------- *)
DepthTexture(width, height) ==
    [result |-> OkTexture(width, height, "Depth32Float"),
     log |-> << [call |-> "create_texture", width |-> width, height |-> height,
                 format |-> "Depth32Float"],
                Call("create_view"),
                Call("create_sampler") >>]

(* ---------------- Context::new, default_with_surface, default ---------- *)
None == [tag |-> "None"]
Some(a) == [tag |-> "Some", adapter |-> a]
DeviceOk(d) == [tag |-> "Ok", device |-> d, queue |-> "queue_of_" \o d]
DeviceErr(e) == [tag |-> "Err", error |-> e]
AdapterReplies == {None} \cup {Some(a) : a \in Adapters}
DeviceReplies == {DeviceOk(d) : d \in Devices} \cup {DeviceErr(e) : e \in DeviceErrors}

\* default() builds its own instance; the other two take the caller's
InstanceOf(entry, passed) == IF entry = "default" THEN "default_instance" ELSE passed

\* variant: a missing adapter is requested again
AfterAdapter_Retry(reply, lg) ==
    IF reply.tag = "None"
    THEN [pc |-> "await_adapter",
          log |-> Append(lg, Head(lg)),
          result |-> NoResult]
    ELSE [pc |-> "await_device",
          log |-> Append(lg, [call |-> "request_device", adapter |-> reply.adapter]),
          result |-> NoResult]

\* instance.request_adapter(..).await.ok_or(Error::RequestingAdapterFailed)?
\* followed, when an adapter came back, by adapter.request_device(..)
AfterAdapter(reply, lg) ==
    IF reply.tag = "None"
    THEN [pc |-> "idle", log |-> lg, result |-> RequestingAdapterFailed]
    ELSE [pc |-> "await_device",
          log |-> Append(lg, [call |-> "request_device", adapter |-> reply.adapter]),
          result |-> NoResult]

\* variant: the library's device error is replaced by a fixed one
AfterDevice_FixedError(reply, instance, adapter) ==
    IF reply.tag = "Err"
    THEN RequestingDeviceFailed("request_device_error_1")
    ELSE [tag |-> "Ok", instance |-> instance, adapter |-> adapter,
          device |-> reply.device, queue |-> reply.queue]

\* adapter.request_device(..).await?  then  Ok(Self { instance, adapter, device, queue })
AfterDevice(reply, instance, adapter) ==
    IF reply.tag = "Err"
    THEN RequestingDeviceFailed(reply.error)
    ELSE [tag |-> "Ok", instance |-> instance, adapter |-> adapter,
          device |-> reply.device, queue |-> reply.queue]

NewBegin ==
    /\ pc = "idle"
    /\ ctx = NoContext
    /\ attempts < MaxAttempts
    /\ \E entry \in Entries, passed \in Instances :
         /\ op' = entry
         /\ args' = [instance |-> InstanceOf(entry, passed)]
         /\ log' = << [call |-> "request_adapter", instance |-> InstanceOf(entry, passed)] >>
    /\ pc' = "await_adapter"
    /\ attempts' = attempts + 1
    /\ result' = NoResult
    /\ adapter_reply' = NoReply
    /\ device_reply' = NoReply
    /\ UNCHANGED << overflow_checks, ctx, textures, writes, views, samplers,
                    encoders, encoder, submitted >>

AdapterReply ==
    /\ pc = "await_adapter"
    /\ \E reply \in AdapterReplies :
         /\ adapter_reply' = reply
         /\ pc' = AfterAdapter(reply, log).pc
         /\ log' = AfterAdapter(reply, log).log
         /\ result' = AfterAdapter(reply, log).result
    /\ UNCHANGED << overflow_checks, op, args, ctx, attempts, device_reply,
                    textures, writes, views, samplers, encoders, encoder, submitted >>

DeviceReply ==
    /\ pc = "await_device"
    /\ \E reply \in DeviceReplies :
         /\ device_reply' = reply
         /\ result' = AfterDevice(reply, args.instance, adapter_reply.adapter)
    /\ ctx' = IF result'.tag = "Ok" THEN result' ELSE ctx
    /\ pc' = "idle"
    /\ UNCHANGED << overflow_checks, op, args, log, attempts, adapter_reply,
                    textures, writes, views, samplers, encoders, encoder, submitted >>

(* ---------------- Context::schedule ---------------- *)
\* variant: an encoder with no commands is finished but not submitted
FinishAndSubmit_SkipEmpty(commands) ==
    IF commands = 0
    THEN [log |-> << Call("finish") >>, buffers |-> << >>]
    ELSE [log |-> << Call("finish"), Call("submit") >>, buffers |-> << commands >>]

\* command_encoder.finish(); self.queue.submit(std::iter::once(command_buffer));
FinishAndSubmit(commands) ==
    [log |-> << Call("finish"), Call("submit") >>, buffers |-> << commands >>]

\* create_command_encoder, then the caller's closure starts on that encoder
ScheduleBegin ==
    /\ pc = "idle"
    /\ ctx # NoContext
    /\ Len(submitted) < MaxSubmits
    /\ op' = "schedule"
    /\ args' = [device |-> ctx.device]
    /\ log' = << Call("create_command_encoder"), Call("operations") >>
    /\ result' = NoResult
    /\ encoders' = encoders + 1
    /\ encoder' = 0
    /\ pc' = "in_operations"
    /\ UNCHANGED << overflow_checks, ctx, attempts, adapter_reply, device_reply,
                    textures, writes, views, samplers, submitted >>

\* the closure records one more command on the encoder
OperationsRecord ==
    /\ pc = "in_operations"
    /\ encoder < MaxCommands
    /\ encoder' = encoder + 1
    /\ UNCHANGED << overflow_checks, pc, op, log, result, args, ctx, attempts,
                    adapter_reply, device_reply, textures, writes, views, samplers,
                    encoders, submitted >>

\* the closure returns; schedule finishes the encoder and submits
OperationsReturn ==
    /\ pc = "in_operations"
    /\ log' = log \o FinishAndSubmit(encoder).log
    /\ submitted' = submitted \o FinishAndSubmit(encoder).buffers
    /\ result' = [tag |-> "Unit"]
    /\ pc' = "idle"
    /\ UNCHANGED << overflow_checks, op, args, ctx, attempts, adapter_reply,
                    device_reply, textures, writes, views, samplers, encoders, encoder >>

(* ---------------- the texture factories as actions ---------------- *)
RECURSIVE CountCalls(_, _)
CountCalls(lg, name) ==
    IF lg = << >> THEN 0
    ELSE (IF Head(lg).call = name THEN 1 ELSE 0) + CountCalls(Tail(lg), name)

\* one synchronous factory call: its library calls take effect on the device
Factory(name, a, out) ==
    /\ pc = "idle"
    /\ ctx # NoContext
    /\ textures < MaxTextures
    /\ op' = name
    /\ args' = a
    /\ result' = out.result
    /\ log' = out.log
    /\ textures' = textures + CountCalls(log', "create_texture")
    /\ writes' = writes + CountCalls(log', "write_texture")
    /\ views' = views + CountCalls(log', "create_view")
    /\ samplers' = samplers + CountCalls(log', "create_sampler")
    /\ pc' = IF result' = Panic THEN "panicked" ELSE "idle"
    /\ UNCHANGED << overflow_checks, ctx, attempts, adapter_reply, device_reply,
                    encoders, encoder, submitted >>

\* The outcomes of the factories over the input domains, tabulated once.
TextureWithDataOutcomes ==
    [k \in BOOLEAN |-> [n \in DataLens |-> [w \in Widths |-> [h \in Heights |->
        [f \in Formats |-> TextureWithData(n, w, h, f, k)]]]]]

CallTextureWithData ==
    \E w \in Widths, h \in Heights, n \in DataLens, f \in Formats :
        Factory("texture_with_data",
                [data_len |-> n, width |-> w, height |-> h, format |-> f],
                TextureWithDataOutcomes[overflow_checks][n][w][h][f])

TextureFromImageOutcomes ==
    [k \in BOOLEAN |-> [w \in ImageDims |-> [h \in ImageDims |->
        [f \in Formats |-> TextureFromImage(w, h, f, k)]]]]

CallTextureFromImage ==
    \E w \in ImageDims, h \in ImageDims, f \in Formats :
        Factory("texture_from_image",
                [width |-> w, height |-> h, format |-> f],
                TextureFromImageOutcomes[overflow_checks][w][h][f])

EncodedFiles ==
    {[decodes |-> FALSE, width |-> 0, height |-> 0]}
      \cup {[decodes |-> TRUE, width |-> w, height |-> h] : w \in ImageDims, h \in ImageDims}

TextureFromImageDataOutcomes ==
    [k \in BOOLEAN |-> [file \in EncodedFiles |->
        [f \in Formats |-> TextureFromImageData(file, f, k)]]]

CallTextureFromImageData ==
    \E file \in EncodedFiles, f \in Formats :
        Factory("texture_from_image_data",
                [file |-> file, format |-> f],
                TextureFromImageDataOutcomes[overflow_checks][file][f])

TextureFromColorOutcomes ==
    [k \in BOOLEAN |-> [c \in Colors |-> [f \in Formats |-> TextureFromColor(c, f, k)]]]

CallTextureFromColor ==
    \E c \in Colors, f \in Formats :
        Factory("texture_from_color",
                [color |-> c, format |-> f],
                TextureFromColorOutcomes[overflow_checks][c][f])

CallDepthTexture ==
    \E w \in 0..MaxDim, h \in 0..MaxDim :
        Factory("depth_texture", [width |-> w, height |-> h], DepthTexture(w, h))

(* ---------------- the specification ---------------- *)
Quiescent ==
    /\ pc = "idle"
    /\ op = "none"
    /\ log = << >>
    /\ result = NoResult
    /\ args = [instance |-> "none"]
    /\ adapter_reply = NoReply
    /\ device_reply = NoReply
    /\ textures = 0 /\ writes = 0 /\ views = 0 /\ samplers = 0
    /\ encoders = 0
    /\ encoder = 0
    /\ submitted = << >>

\* The host before any Context exists.
Init ==
    /\ overflow_checks \in BOOLEAN
    /\ ctx = NoContext
    /\ attempts = 0
    /\ Quiescent

\* Context creation and command scheduling.
Next ==
    \/ NewBegin
    \/ AdapterReply
    \/ DeviceReply
    \/ ScheduleBegin
    \/ OperationsRecord
    \/ OperationsReturn

Spec == Init /\ [][Next]_vars

\* The host holding a Context that Context::new returned.
TexInit ==
    /\ overflow_checks \in BOOLEAN
    /\ ctx = AfterDevice(DeviceOk("device_1"), "instance_a", "adapter_1")
    /\ attempts = 1
    /\ Quiescent

\* The texture factories of that Context.
TexNext ==
    \/ CallTextureWithData
    \/ CallTextureFromImage
    \/ CallTextureFromImageData
    \/ CallTextureFromColor
    \/ CallDepthTexture

TexSpec == TexInit /\ [][TexNext]_vars

(* ======================= the claims ======================= *)
TwdCall == op = "texture_with_data"

\* the mathematical 4 * width * height, never wrapped
RequiredBytes(width, height) == MulLimbs(MulLimbs(U32(4), U32(width)), U32(height))

TooShort(data_len, width, height) == LimbsLess(U32(data_len), RequiredBytes(width, height))

\* C1: a texture_with_data call whose data holds fewer than 4 * width * height
\* bytes returns Err(TextureCreationFailed) and makes no write_texture call.
C1_ShortDataRejected ==
    (TwdCall /\ TooShort(args.data_len, args.width, args.height))
        => (result = TextureCreationFailed /\ CountCalls(log, "write_texture") = 0)

\* C2: a texture_with_data call with width > 0, height > 0 and at least
\* 4 * width * height bytes of data returns Ok(Texture).
C2_EnoughDataAccepted ==
    (TwdCall /\ args.width > 0 /\ args.height > 0
       /\ ~TooShort(args.data_len, args.width, args.height))
        => result.tag = "Ok"

\* C3: texture_from_image on an image with width > 0 and height > 0 returns
\* Ok(Texture) with the image's width and height.
C3_ImageBuilds ==
    (op = "texture_from_image" /\ args.width > 0 /\ args.height > 0)
        => result = OkTexture(args.width, args.height, args.format)

CreationDone == op \in Entries /\ pc = "idle"

\* C4: when a Context creation has returned, the result is
\* Err(RequestingAdapterFailed) exactly when request_adapter yielded None,
\* Err(RequestingDeviceFailed(e)) exactly when an adapter was found and
\* request_device failed with e, and Ok(Context) holding the passed instance
\* and the returned adapter, device and queue exactly when both succeeded.
C4_NewMapsOutcomes ==
    CreationDone =>
        /\ (result = RequestingAdapterFailed) <=> (adapter_reply = None)
        /\ \A e \in DeviceErrors :
             (result = RequestingDeviceFailed(e))
                <=> (adapter_reply.tag = "Some" /\ device_reply = DeviceErr(e))
        /\ (result.tag = "Ok") <=> (adapter_reply.tag = "Some" /\ device_reply.tag = "Ok")
        /\ (result.tag = "Ok") =>
             /\ result = [tag |-> "Ok", instance |-> args.instance,
                          adapter |-> adapter_reply.adapter,
                          device |-> device_reply.device, queue |-> device_reply.queue]
             /\ ctx = result

C4_Witness == CreationDone /\ result = RequestingDeviceFailed("request_device_error_2")

\* C5: during and after a Context creation, request_adapter has been called
\* exactly once, request_device at most once and only after request_adapter
\* returned an adapter, and a failed request is the last library request.
C5_NoRetry ==
    op \in Entries =>
        /\ CountCalls(log, "request_adapter") = 1
        /\ log[1].call = "request_adapter"
        /\ CountCalls(log, "request_device") <= 1
        /\ (CountCalls(log, "request_device") = 1) =>
             (adapter_reply.tag = "Some" /\ log[2].call = "request_device")
        /\ (adapter_reply = None) => (Len(log) = 1 /\ pc = "idle")
        /\ (device_reply.tag = "Err") => (Len(log) = 2 /\ pc = "idle")

C5_Witness ==
    /\ op = "default" /\ pc = "idle" /\ attempts = MaxAttempts
    /\ result = RequestingAdapterFailed

\* C6: a schedule call creates one encoder, runs the closure on it, finishes
\* the encoder and submits one command buffer, in this order; nothing is
\* submitted while the closure runs, and every finished schedule call has
\* submitted exactly one buffer, holding what the closure recorded.
C6_ScheduleOrder ==
    op = "schedule" =>
        /\ (pc = "in_operations") =>
             /\ log = << Call("create_command_encoder"), Call("operations") >>
             /\ Len(submitted) = encoders - 1
        /\ (pc = "idle") =>
             /\ log = << Call("create_command_encoder"), Call("operations"),
                         Call("finish"), Call("submit") >>
             /\ Len(submitted) = encoders
             /\ submitted[Len(submitted)] = encoder

C6_Witness == op = "schedule" /\ pc = "idle" /\ encoder = 0 /\ Len(submitted) = MaxSubmits

\* C7: a factory call that returns an Err made no library call, and leaves
\* the device's textures, views and samplers and the queue's writes as they were.
C7_FailureTouchesNothing ==
    [][(result'.tag = "Err")
         => (log' = << >> /\ UNCHANGED << textures, writes, views, samplers >>)]_vars

C7_Witness == op = "texture_from_image_data" /\ result = ImageError

\* C8: texture_from_color returns Ok(Texture) of size 1 x 1 in the requested
\* format, having uploaded exactly 4 bytes.
C8_ColorNeverFails ==
    op = "texture_from_color" =>
        /\ result = OkTexture(1, 1, args.format)
        /\ Len(log) = 4
        /\ log[2].call = "write_texture" /\ log[2].data_len = 4

C8_Witness ==
    /\ op = "texture_from_color" /\ result.tag = "Ok"
    /\ args.color[1] = NaN /\ args.color[4] = F32(20)

\* C9: in every texture_with_data call the u32 products bytes_per_row and
\* bytes_per_image equal the mathematical products.
C9_ProductsExact ==
    TwdCall =>
        LET size == Extent3d(args.width, args.height)
            bpr  == BytesPerRow(size, overflow_checks)
            bpi  == BytesPerImage(bpr.value, size, overflow_checks)
        IN  /\ ~bpr.panics /\ ~bpi.panics
            /\ LimbsEqual(bpr.value, MulLimbs(U32(4), U32(args.width)))
            /\ LimbsEqual(bpi.value, MulLimbs(bpr.value, U32(args.width)))

RECURSIVE NoEmptyExtent(_)
NoEmptyExtent(lg) ==
    \/ lg = << >>
    \/ /\ Head(lg).call = "create_texture" => (Head(lg).width > 0 /\ Head(lg).height > 0)
       /\ NoEmptyExtent(Tail(lg))

\* C10: a texture_with_data call with width 0 or height 0 returns
\* Err(TextureCreationFailed) and never calls create_texture with an empty extent.
C10_EmptyExtentRejected ==
    TwdCall =>
        /\ (args.width = 0 \/ args.height = 0) => result = TextureCreationFailed
        /\ NoEmptyExtent(log)
====
